---- MODULE Spec2Model ----
(***************************************************************************)
(* plot_mutation_spectrum (notebooks/ms_figs.python.ipynb, lines 145-229): *)
(* the comparison of the mutation spectra of two sets of DNMs.             *)
(*                                                                         *)
(* A data frame is the sequence of its rows [chrom, mut], in iterrows()    *)
(* order.  A mapping (defaultdict or dict) is the sequence of its          *)
(* <<key, count>> pairs in the order the dict enumerates them.  That order *)
(* is the interpreter's: the order of insertion on CPython 3.6 and later;  *)
(* on CPython 2.7 (the notebook's kernel) the order of the keys' slots in  *)
(* the hash table, which depends on the hash seed of the process and, for  *)
(* keys whose slots collide, on the order of insertion, so that a new key  *)
(* may come anywhere among the keys the dict holds.  The interpreter and   *)
(* the libraries a session runs on are its build, fixed for the session    *)
(* and any of Builds.                                                      *)
(*                                                                         *)
(* A p-value of the 2x2 chi-square test (one degree of freedom) is held as *)
(* the Yates-corrected statistic it is the survival function of, a         *)
(* fraction [num, den]: p is 1.0 iff the statistic is 0, and p <= q iff    *)
(* the statistic of p is >= the statistic of q.  An element of a fraction  *)
(* vector is [num, den] too; den = 0 is the float NaN (0/0) or inf.        *)
(*                                                                         *)
(* The figure is held as the bars and tick labels given to it; its styling *)
(* and the optional savefig (lines 223-229) are left out.                  *)
(***************************************************************************)
EXTENDS Integers, Sequences, FiniteSets, TLC

\* Bounds of the model: rows of df1 and df2 (Spec), rows of a block-shaped
\* frame and its indel rows (SpecDeep), rows of df1 and df2 of a repeated call and the number of
\* calling cells run in a session (SpecCalls).
MaxRowsA == 3
MaxRowsB == 1
MaxDeep == 6
MaxDeepIndel == 1
MaxRowsCalls == 2
MaxRowsCallsB == 1
MaxCalls == 2

VARIABLES build, execution_count,
          pc, df1, df2, indels, labels, colors, defaults,
          a, b, i, tbl, unadj_p_vals, signif, totals, report,
          a_frac, b_frac, chart, err

vars == <<build, execution_count,
          pc, df1, df2, indels, labels, colors, defaults,
          a, b, i, tbl, unadj_p_vals, signif, totals, report,
          a_frac, b_frac, chart, err>>

-----------------------------------------------------------------------------
(* Values *)

\* Mutation-type labels, listed in Python's str order ('C' < 'T' < 'i').
Labels == <<"C>T", "T>C", "indel">>

LabelSet == {Labels[n] : n \in DOMAIN Labels}

\* Position of a label in str order: l < m in Python iff StrRank(l) < StrRank(m).
StrRank(l) == CHOOSE n \in DOMAIN Labels : Labels[n] = l

\* The builds a session can run on.  dict: the keys of a dict enumerate in
\* the order of their slots in the hash table (CPython 2.7, with or without
\* hash randomization) or in insertion order (CPython 3.6 and later).
\* yates: chi2_contingency corrects by observed + 0.5 * sign(expected -
\* observed) (the scipy releases that run on Python 2.7, and later ones), or
\* by at most |expected - observed| (current scipy, Python 3 only).
\* bar: ax.bar requires len(height) = len(x) (matplotlib before 2.1), or
\* broadcasts x and height to one shape (2.1 and later).
Builds ==
  {bl \in [dict : {"hash", "insertion"}, yates : {"sign", "min"}, bar : {"strict", "broadcast"}] :
     ~(bl.dict = "hash" /\ bl.yates = "min")}

Row(c, m) == [chrom |-> c, mut |-> m]

\* The rows df1 of Spec is drawn from.
RecordPool == {Row("1", "C>T"), Row("1", "T>C"), Row("X", "T>C"), Row("1", "indel")}

\* The rows df2 of Spec is drawn from.
RecordPoolB == {Row("X", "T>C"), Row("1", "indel")}

SeqsUpTo(S, n) == UNION {[1..k -> S] : k \in 0..n}

Rep(x, n) == [k \in 1..n |-> x]

\* Block-shaped autosomal frames: n1 rows T>C, then n2 rows indel (at most
\* MaxDeepIndel), then n3 rows C>T.
DeepFrames ==
  {Rep(Row("1", "T>C"), n[1]) \o Rep(Row("1", "indel"), n[2]) \o Rep(Row("1", "C>T"), n[3]) :
     n \in {m \in [1..3 -> 0..MaxDeep] :
              m[2] <= MaxDeepIndel /\ m[1] + m[2] + m[3] <= MaxDeep}}

\* Autosomal frames of T>C rows only.
SingleFrames == {Rep(Row("1", "T>C"), n) : n \in 0..MaxDeep}

\* The rows the frames of SpecCalls are drawn from.
CallPool == {Row("1", "C>T"), Row("1", "indel")}

\* The function's default arguments (mutable lists bound once, at def time).
DefaultArgs == [labels |-> <<"a", "b">>, colors |-> <<"#66c2a5", "#fc8d62">>]

NoError == [exc |-> "none", src |-> "none", args |-> <<>>]

NoChart == [drawn |-> FALSE, a_bars |-> <<>>, b_bars |-> <<>>, ticks |-> <<>>]

-----------------------------------------------------------------------------
(* Mappings, as sequences of pairs in enumeration order *)

Keys(d) == [n \in DOMAIN d |-> d[n][1]]

Values(d) == [n \in DOMAIN d |-> d[n][2]]

KeySet(d) == {d[n][1] : n \in DOMAIN d}

HasKey(d, k) == \E n \in DOMAIN d : d[n][1] = k

\* d[k] of a key that is present.
Get(d, k) == d[CHOOSE n \in DOMAIN d : d[n][1] = k][2]

RECURSIVE SumSeq(_)
SumSeq(s) == IF s = <<>> THEN 0 ELSE s[1] + SumSeq(Tail(s))

\* sum(d.values())
SumValues(d) == SumSeq(Values(d))

\* The pairs of d, by the position of their keys in order.
InOrder(d, order) ==
  LET ks == SelectSeq(order, LAMBDA l : HasKey(d, l))
  IN  [n \in DOMAIN ks |-> <<ks[n], Get(d, ks[n])>>]

\* The dicts that the pairs of items, inserted in that order into an empty
\* dict, can make: the pairs in that order, or, by hash, in any order.
FromItems(items) ==
  IF build.dict = "insertion" THEN {items}
  ELSE {s \in [DOMAIN items -> {items[n] : n \in DOMAIN items}] :
          \A n \in DOMAIN items : \E k \in DOMAIN s : s[k] = items[n]}

InsertAt(d, p, x) ==
  [n \in 1..(Len(d) + 1) |-> IF n < p THEN d[n] ELSE IF n = p THEN x ELSE d[n - 1]]

\* The dicts that d can be once it holds the pairs of new, which are those of
\* d, followed by the inserted pair if one was: the keys d held stay in their
\* order (three labels never make the table resize), the new key comes last
\* or, by hash, anywhere.
WithInserted(d, new) ==
  IF Len(new) = Len(d) \/ build.dict = "insertion" THEN {new}
  ELSE {InsertAt(d, p, new[Len(new)]) : p \in 1..Len(new)}

\* defaultdict(int).__getitem__: a missing key is inserted with int() = 0.
\* The pairs are in the order of insertion.
Touch(d, k) == IF HasKey(d, k) THEN d ELSE Append(d, <<k, 0>>)

\* d[k] += 1 on a defaultdict(int).
Incr(d, k) ==
  LET t == Touch(d, k)
  IN  [n \in DOMAIN t |-> IF t[n][1] = k THEN <<k, t[n][2] + 1>> ELSE t[n]]

\* defaultdict(int): a fresh, empty mapping.
NewCounts == <<>>

LabelsReversed(ls) == <<ls[2], ls[1]>>

\* The list labels after lines 174-178, which read labels[0] and labels[1].
LabelsAfterTotals(ls) == ls

-----------------------------------------------------------------------------
(* Lines 162-169: the two aggregation loops *)

KeptNoIndelTest(row, ind) == row.chrom # "X"

\* A row is counted unless it is on chromosome X, or it is an indel and
\* indels is false (the two continue statements).
Kept(row, ind) ==
  /\ ~(row.chrom = "X")
  /\ ~(~ind /\ row.mut = "indel")

\* The pairs of an aggregation loop over df, in the order of insertion.
RECURSIVE Aggregate(_, _, _)
Aggregate(d, df, ind) ==
  IF df = <<>> THEN d
  ELSE Aggregate(IF Kept(df[1], ind) THEN Incr(d, df[1].mut) ELSE d, Tail(df), ind)

-----------------------------------------------------------------------------
(* Line 192: scipy.stats.chi2_contingency on a 2x2 table *)

RowSum(t, r) == t[r][1] + t[r][2]

ColSum(t, c) == t[1][c] + t[2][c]

TableTotal(t) == RowSum(t, 1) + RowSum(t, 2)

\* The cells whose expected frequency RowSum * ColSum / TableTotal is zero.
\* With a zero total every expected frequency is 0/0 = NaN, which is not == 0.
ZeroExpected(t) ==
  {rc \in (1..2) \X (1..2) : TableTotal(t) > 0 /\ RowSum(t, rc[1]) * ColSum(t, rc[2]) = 0}

\* The first zero cell in row-major order, as the message prints it (0-based).
FirstZeroCell(t) ==
  LET z == ZeroExpected(t)
  IN  IF <<1, 1>> \in z THEN "(0, 0)"
      ELSE IF <<1, 2>> \in z THEN "(0, 1)"
      ELSE IF <<2, 1>> \in z THEN "(1, 0)"
      ELSE "(1, 1)"

Abs(x) == IF x < 0 THEN -x ELSE x

\* The statistic with Yates' correction.  Every |observed - expected| of a
\* 2x2 table is D/n with D = |ad - bc|, and the sum of 1/expected is
\* n^3 / (r1 r2 c1 c2).  The correction moves every observed count by 0.5
\* towards its expected one: observed + 0.5 * sign(expected - observed), so
\* the difference becomes |D/n - 0.5| where D > 0, past the expected count
\* when D/n < 0.5, and stays 0 where D = 0.
Chi2StatisticSign(t) ==
  LET n == TableTotal(t)
      D == Abs(t[1][1] * t[2][2] - t[1][2] * t[2][1])
  IN  IF n = 0 THEN [num |-> 0, den |-> 0]
      ELSE IF D = 0 THEN [num |-> 0, den |-> 1]
      ELSE [num |-> n * (2 * D - n) * (2 * D - n),
            den |-> 4 * RowSum(t, 1) * RowSum(t, 2) * ColSum(t, 1) * ColSum(t, 2)]

\* The correction takes min(0.5, D/n) off the difference.
Chi2StatisticMin(t) ==
  LET n == TableTotal(t)
      D == Abs(t[1][1] * t[2][2] - t[1][2] * t[2][1])
  IN  IF n = 0 THEN [num |-> 0, den |-> 0]
      ELSE IF 2 * D - n <= 0 THEN [num |-> 0, den |-> 1]
      ELSE [num |-> n * (2 * D - n) * (2 * D - n),
            den |-> 4 * RowSum(t, 1) * RowSum(t, 2) * ColSum(t, 1) * ColSum(t, 2)]

Chi2Statistic(t) ==
  IF build.yates = "sign" THEN Chi2StatisticSign(t) ELSE Chi2StatisticMin(t)

\* chi2_contingency raises ValueError when an expected frequency is zero.
Chi2Raises(t) == ZeroExpected(t) # {}

Chi2Error(t) ==
  [exc |-> "ValueError", src |-> "chi2_contingency",
   args |-> <<"The internally computed table of expected frequencies has a zero element at",
              FirstZeroCell(t)>>]

IsNaN(p) == p.den = 0

\* p = 1.0
IsOne(p) == p.den > 0 /\ p.num = 0

\* p <= q, on the statistics (a comparison with NaN is false).
PLeq(p, q) == ~IsNaN(p) /\ ~IsNaN(q) /\ p.num * q.den >= q.num * p.den

\* The chi-square (1 d.o.f.) quantile whose survival function is k * 0.05 / m,
\* times 10000 and rounded up, for the m <= 3 categories three labels give.
CriticalValue(k, m) ==
  CASE k = m -> 38415
    [] k = 1 /\ m = 2 -> 50239
    [] k = 1 /\ m = 3 -> 57312
    [] k = 2 /\ m = 3 -> 45286

\* p <= k * alpha / m with fdrcorrection's default alpha = 0.05.
PLeqThreshold(p, k, m) == ~IsNaN(p) /\ p.num * 10000 >= CriticalValue(k, m) * p.den

-----------------------------------------------------------------------------
(* Line 198: statsmodels fdrcorrection (Benjamini-Hochberg, method 'indep') *)

Injective(f) == \A x, y \in DOMAIN f : f[x] = f[y] => x = y

\* np.argsort(pvals): a permutation that puts the p-values in ascending order.
ArgSort(pv) ==
  CHOOSE f \in [DOMAIN pv -> DOMAIN pv] :
    /\ Injective(f)
    /\ \A x, y \in DOMAIN pv : x < y => PLeq(pv[f[x]], pv[f[y]])

SetMax(S) == CHOOSE x \in S : \A y \in S : y <= x

\* reject = pvals_sorted <= ecdffactor * alpha; reject[:rejectmax] = True;
\* reject_[pvals_sortind] = reject.
FdrCorrection(pv) ==
  LET m == Len(pv)
      ind == ArgSort(pv)
      hit == {k \in 1..m : PLeqThreshold(pv[ind[k]], k, m)}
      rej == [k \in 1..m |-> hit # {} /\ k <= SetMax(hit)]
  IN  [n \in 1..m |-> rej[CHOOSE k \in 1..m : ind[k] = n]]

-----------------------------------------------------------------------------
(* Lines 210-214: uniform sorting and normalisation *)

\* sorted(d.items()): the pairs, sorted by key in str order.  The dict
\* comprehension inserts them into a new dict in that order.
SortedItems(d) == InOrder(d, Labels)

\* np.array(list(d.values())) / float(sum(list(d.values()))): numpy divides by
\* 0.0 without raising, so a zero total gives den = 0 in every element.
Fractions(d) == [n \in DOMAIN d |-> [num |-> d[n][2], den |-> SumValues(d)]]

-----------------------------------------------------------------------------
(* Lines 185-195: one iteration of the test loop *)

LoopKeysBoth(x, y) == Keys(x) \o SelectSeq(Keys(y), LAMBDA k : ~HasKey(x, k))

\* for i, change in enumerate(a): the keys of a, as a enumerates them.
LoopKeys(x, y) == Keys(x)

MakeTableSwapped(a_back, a_fore, b_back, b_fore) == <<<<a_back, a_fore>>, <<b_fore, b_back>>>>

\* [ [a_back, a_fore], [b_back, b_fore] ]
MakeTable(a_back, a_fore, b_back, b_fore) == <<<<a_back, a_fore>>, <<b_back, b_fore>>>>

BackNoSubtract(d, fore) == SumValues(d)

\* sum(d.values()) - d[change]
Back(d, fore) == SumValues(d) - fore

LookupNoInsert(d, k) == d

\* The mapping after the two reads d[change] of lines 186-187 (188-189).
AfterLookup(d, k) == Touch(d, k)

\* The table of category change, from the mappings as the iteration finds them.
\* sum(b.values()) is taken before b[change] inserts the key; the inserted
\* count is 0.
TableOf(change) ==
  LET a1 == AfterLookup(a, change)
      b1 == AfterLookup(b, change)
      a_fore == IF HasKey(a1, change) THEN Get(a1, change) ELSE 0
      b_fore == IF HasKey(b1, change) THEN Get(b1, change) ELSE 0
  IN  MakeTable(Back(a, a_fore), a_fore, Back(b, b_fore), b_fore)

ReportLineShifted(n) ==
  [star |-> signif[n], change |-> unadj_p_vals[n][1], u_p |-> unadj_p_vals[1][2]]

\* Lines 200-206: the n-th line of the report.
ReportLine(n) ==
  [star |-> signif[n], change |-> unadj_p_vals[n][1], u_p |-> unadj_p_vals[n][2]]

-----------------------------------------------------------------------------
(* The call, step by step *)

Locals0 ==
  /\ a = <<>> /\ b = <<>> /\ i = 0
  /\ tbl = <<<<0, 0>>, <<0, 0>>>>
  /\ unadj_p_vals = <<>> /\ signif = <<>>
  /\ a_frac = <<>> /\ b_frac = <<>>

Outputs0 == totals = <<>> /\ report = <<>> /\ chart = NoChart /\ err = NoError

\* plot_mutation_spectrum(df1, df2, indels=...) entered, nothing executed yet.
\* A local that is not bound yet is held as the empty value.
Init ==
  /\ build \in Builds
  /\ execution_count = 1
  /\ pc = "enter"
  /\ df1 \in SeqsUpTo(RecordPool, MaxRowsA)
  /\ df2 \in SeqsUpTo(RecordPoolB, MaxRowsB)
  /\ indels \in BOOLEAN
  /\ defaults = DefaultArgs
  /\ labels = defaults.labels /\ colors = defaults.colors
  /\ Locals0 /\ Outputs0

\* A call on larger frames: df2 is df1 itself or a frame of T>C rows.
InitDeep ==
  /\ build \in Builds
  /\ execution_count = 1
  /\ pc = "enter"
  /\ df1 \in DeepFrames
  /\ df2 \in {df1} \cup SingleFrames
  /\ indels \in BOOLEAN
  /\ defaults = DefaultArgs
  /\ labels = defaults.labels /\ colors = defaults.colors
  /\ Locals0 /\ Outputs0

\* The notebook before its first call.
InitCalls ==
  /\ build \in Builds
  /\ execution_count = 0
  /\ pc = "idle"
  /\ df1 = <<>> /\ df2 = <<>> /\ indels = FALSE
  /\ defaults = DefaultArgs
  /\ labels = defaults.labels /\ colors = defaults.colors
  /\ Locals0 /\ Outputs0

\* A notebook cell calls the function once the previous call has returned or
\* raised.  The parameters are bound in a new frame: labels is the default
\* list unless passed, and so is colors.  No local of the new frame is bound
\* yet; the frame of the previous call and its outputs are dropped.
Call ==
  /\ pc \in {"idle", "done", "error"}
  /\ execution_count < MaxCalls
  /\ execution_count' = execution_count + 1
  /\ pc' = "enter"
  /\ df1' \in SeqsUpTo(CallPool, MaxRowsCalls)
  /\ df2' \in SeqsUpTo(CallPool, MaxRowsCallsB)
  /\ indels' \in BOOLEAN
  /\ \E passed \in BOOLEAN :
       labels' = IF passed THEN <<"paternal", "maternal">> ELSE defaults.labels
  /\ \E passed \in BOOLEAN :
       colors' = IF passed THEN <<"dodgerblue", "firebrick">> ELSE defaults.colors
  /\ a' = <<>> /\ b' = <<>>
  /\ i' = 0 /\ tbl' = <<<<0, 0>>, <<0, 0>>>>
  /\ unadj_p_vals' = <<>> /\ signif' = <<>>
  /\ a_frac' = <<>> /\ b_frac' = <<>>
  /\ totals' = <<>> /\ report' = <<>> /\ chart' = NoChart /\ err' = NoError
  /\ UNCHANGED <<build, defaults>>

\* Line 161: a, b = defaultdict(int), defaultdict(int)
Bind ==
  /\ pc = "enter"
  /\ a' = NewCounts
  /\ b' = NewCounts
  /\ pc' = "agg_a"
  /\ UNCHANGED <<build, execution_count, df1, df2, indels, labels, colors, defaults, i, tbl, unadj_p_vals,
                 signif, totals, report, a_frac, b_frac, chart, err>>

\* Lines 162-165
AggregateA ==
  /\ pc = "agg_a"
  /\ a' \in FromItems(Aggregate(a, df1, indels))
  /\ pc' = "agg_b"
  /\ UNCHANGED <<build, execution_count, df1, df2, indels, labels, colors, defaults, b, i, tbl, unadj_p_vals,
                 signif, totals, report, a_frac, b_frac, chart, err>>

\* Lines 166-169
AggregateB ==
  /\ pc = "agg_b"
  /\ b' \in FromItems(Aggregate(b, df2, indels))
  /\ pc' = "totals"
  /\ UNCHANGED <<build, execution_count, df1, df2, indels, labels, colors, defaults, a, i, tbl, unadj_p_vals,
                 signif, totals, report, a_frac, b_frac, chart, err>>

\* Lines 172-184: the totals are printed and the list of p-values starts empty.
\* When labels was not passed it is the default list itself, so what the
\* lines leave in it is what the next call finds as its default.
Totals ==
  /\ pc = "totals"
  /\ totals' = <<[n_dnms |-> SumValues(a), l |-> labels[1]],
                 [n_dnms |-> SumValues(b), l |-> labels[2]]>>
  /\ labels' = LabelsAfterTotals(labels)
  /\ defaults' = IF labels = defaults.labels
                    THEN [defaults EXCEPT !.labels = LabelsAfterTotals(labels)]
                    ELSE defaults
  /\ unadj_p_vals' = <<>>
  /\ i' = 1
  /\ pc' = "test"
  /\ UNCHANGED <<build, execution_count, df1, df2, indels, colors, a, b, tbl,
                 signif, report, a_frac, b_frac, chart, err>>

\* Lines 185-195, chi2_contingency returning.
TestStep ==
  /\ pc = "test"
  /\ i <= Len(LoopKeys(a, b))
  /\ LET change == LoopKeys(a, b)[i]
         t == TableOf(change)
     IN  /\ ~Chi2Raises(t)
         /\ a' \in WithInserted(a, AfterLookup(a, change))
         /\ b' \in WithInserted(b, AfterLookup(b, change))
         /\ tbl' = t
         /\ unadj_p_vals' = Append(unadj_p_vals, <<change, Chi2Statistic(t)>>)
  /\ i' = i + 1
  /\ UNCHANGED <<build, execution_count, pc, df1, df2, indels, labels, colors, defaults,
                 signif, totals, report, a_frac, b_frac, chart, err>>

\* Lines 185-192, chi2_contingency raising: the exception leaves the function.
TestRaise ==
  /\ pc = "test"
  /\ i <= Len(LoopKeys(a, b))
  /\ LET change == LoopKeys(a, b)[i]
         t == TableOf(change)
     IN  /\ Chi2Raises(t)
         /\ a' \in WithInserted(a, AfterLookup(a, change))
         /\ b' \in WithInserted(b, AfterLookup(b, change))
         /\ tbl' = t
         /\ err' = Chi2Error(t)
  /\ pc' = "error"
  /\ UNCHANGED <<build, execution_count, df1, df2, indels, labels, colors, defaults, i, unadj_p_vals,
                 signif, totals, report, a_frac, b_frac, chart>>

\* Line 198
Fdr ==
  /\ pc = "test"
  /\ i > Len(LoopKeys(a, b))
  /\ signif' = FdrCorrection([n \in DOMAIN unadj_p_vals |-> unadj_p_vals[n][2]])
  /\ pc' = "report"
  /\ UNCHANGED <<build, execution_count, df1, df2, indels, labels, colors, defaults, a, b, i, tbl, unadj_p_vals,
                 totals, report, a_frac, b_frac, chart, err>>

\* Lines 200-206
Report ==
  /\ pc = "report"
  /\ report' = [n \in DOMAIN signif |-> ReportLine(n)]
  /\ pc' = "sort"
  /\ UNCHANGED <<build, execution_count, df1, df2, indels, labels, colors, defaults, a, b, i, tbl, unadj_p_vals,
                 signif, totals, a_frac, b_frac, chart, err>>

\* Line 210
SortMaps ==
  /\ pc = "sort"
  /\ a' \in FromItems(SortedItems(a))
  /\ b' \in FromItems(SortedItems(b))
  /\ pc' = "normalize"
  /\ UNCHANGED <<build, execution_count, df1, df2, indels, labels, colors, defaults, i, tbl, unadj_p_vals,
                 signif, totals, report, a_frac, b_frac, chart, err>>

\* Lines 213-214
Normalize ==
  /\ pc = "normalize"
  /\ a_frac' = Fractions(a)
  /\ b_frac' = Fractions(b)
  /\ pc' = "draw"
  /\ UNCHANGED <<build, execution_count, df1, df2, indels, labels, colors, defaults, a, b, i, tbl, unadj_p_vals,
                 signif, totals, report, chart, err>>

\* ax.bar(x, height) accepts nx positions with nh heights: numpy broadcasts
\* them to one shape, or, before matplotlib 2.1, the lengths must be equal.
Broadcasts(nx, nh) ==
  IF build.bar = "strict" THEN nx = nh ELSE nx = nh \/ nx = 1 \/ nh = 1

\* The ValueError of ax.bar for nx positions.
BarError(nx) ==
  [exc |-> "ValueError", src |-> "bar",
   args |-> IF build.bar = "strict"
              THEN <<"incompatible sizes: argument 'height' must be length "
                       \o ToString(nx) \o " or scalar">>
              ELSE <<"shape mismatch: objects cannot be broadcast to a single shape">>]

\* Lines 216-225, both ax.bar calls returning.  The bars of a sit at idx, those
\* of b at idx + width; a height vector of another length is broadcast against
\* idx where the build allows it.
Draw ==
  /\ pc = "draw"
  /\ Broadcasts(Len(a_frac), Len(b_frac))
  /\ LET la == Len(a_frac)
         lb == Len(b_frac)
         nb == IF la = lb THEN la ELSE IF lb = 1 THEN la ELSE lb
     IN  chart' = [drawn |-> TRUE,
                   a_bars |-> [n \in 1..la |-> [idx |-> n - 1, h |-> a_frac[n], color |-> colors[1]]],
                   b_bars |-> [n \in 1..nb |->
                                 [idx |-> IF la = 1 THEN 0 ELSE n - 1,
                                  h |-> IF lb = 1 THEN b_frac[1] ELSE b_frac[n],
                                  color |-> colors[2]]],
                   ticks |-> Keys(a)]
  /\ pc' = "done"
  /\ UNCHANGED <<build, execution_count, df1, df2, indels, labels, colors, defaults, a, b, i, tbl, unadj_p_vals,
                 signif, totals, report, a_frac, b_frac, err>>

\* Line 219 raising: ax.bar does not accept len(b_frac) heights for the
\* len(a_frac) positions of idx.  Line 218 has put the bars of a on the axes
\* by then; the ticks are not set.
DrawRaise ==
  /\ pc = "draw"
  /\ ~Broadcasts(Len(a_frac), Len(b_frac))
  /\ chart' = [drawn |-> FALSE,
                a_bars |-> [n \in 1..Len(a_frac) |->
                              [idx |-> n - 1, h |-> a_frac[n], color |-> colors[1]]],
                b_bars |-> <<>>,
                ticks |-> <<>>]
  /\ err' = BarError(Len(a_frac))
  /\ pc' = "error"
  /\ UNCHANGED <<build, execution_count, df1, df2, indels, labels, colors, defaults, a, b, i, tbl, unadj_p_vals,
                 signif, totals, report, a_frac, b_frac>>

Next ==
  \/ Bind \/ AggregateA \/ AggregateB \/ Totals
  \/ TestStep \/ TestRaise \/ Fdr \/ Report
  \/ SortMaps \/ Normalize \/ Draw \/ DrawRaise

NextCalls == Call \/ Next

Spec == Init /\ [][Next]_vars

SpecDeep == InitDeep /\ [][Next]_vars

SpecCalls == InitCalls /\ [][NextCalls]_vars

-----------------------------------------------------------------------------
(* What the properties are stated in: the rows of a frame, counted directly *)

\* The positions of the rows of df that are retained.
Retained(df, ind) ==
  {n \in DOMAIN df : df[n].chrom # "X" /\ (ind \/ df[n].mut # "indel")}

NRetained(df, ind) == Cardinality(Retained(df, ind))

CountOf(df, ind, l) == Cardinality({n \in Retained(df, ind) : df[n].mut = l})

RetainedCats(df, ind) == {df[n].mut : n \in Retained(df, ind)}

\* The position of the first retained row of df with label l.
FirstRow(df, ind, l) ==
  CHOOSE n \in Retained(df, ind) :
    /\ df[n].mut = l
    /\ \A k \in Retained(df, ind) : df[k].mut = l => n <= k

\* d holds exactly the labels with a retained row, once each, with their counts.
ExactCounts(d, df, ind) ==
  /\ KeySet(d) = RetainedCats(df, ind)
  /\ Len(d) = Cardinality(KeySet(d))
  /\ \A n \in DOMAIN d : d[n][2] = CountOf(df, ind, d[n][1])

\* The table of category c by the counts of the retained rows.
OwnTable(c) ==
  <<<<NRetained(df1, indels) - CountOf(df1, indels, c), CountOf(df1, indels, c)>>,
    <<NRetained(df2, indels) - CountOf(df2, indels, c), CountOf(df2, indels, c)>>>>

SamePValue(p, q) == PLeq(p, q) /\ PLeq(q, p)

\* Benjamini-Hochberg on the p-values as a set: p_n is rejected iff for some k
\* at least k p-values are <= k * alpha / m and p_n is one of them.
BHFlag(n) ==
  LET m == Len(unadj_p_vals)
  IN  \E k \in 1..m :
        /\ Cardinality({j \in 1..m : PLeqThreshold(unadj_p_vals[j][2], k, m)}) >= k
        /\ PLeqThreshold(unadj_p_vals[n][2], k, m)

\* The labels of both mappings, in str order.
UnionLabels == SelectSeq(Labels, LAMBDA l : HasKey(a, l) \/ HasKey(b, l))

ChiSquareFailed == pc = "error" /\ err.src = "chi2_contingency"

\* The test loop has run to its end.
LoopDone ==
  \/ pc \in {"report", "sort", "normalize", "draw", "done"}
  \/ pc = "error" /\ err.src = "bar"

\* A table has been passed to chi2_contingency; tbl is the last one.
TablePassed == (pc = "test" /\ i > 1) \/ ChiSquareFailed

LastCategory ==
  IF pc = "error" THEN Keys(a)[i] ELSE unadj_p_vals[Len(unadj_p_vals)][1]

-----------------------------------------------------------------------------
(* The claims *)

\* C1: once a set is aggregated, its mapping holds, for each mutation-type
\* label, exactly the number of retained rows with that label (a row is
\* retained iff chrom is not 'X' and not (mut is 'indel' and indels is false));
\* labels without a retained row are absent, and an all-filtered set gives the
\* empty mapping.
C1_AggregatedCounts ==
  /\ pc \in {"agg_b", "totals"} => ExactCounts(a, df1, indels)
  /\ pc = "totals" => ExactCounts(b, df2, indels)

\* C1 witness: the scenario [{1,T>C},{X,T>C},{1,indel}] with indels excluded
\* has been aggregated to {T>C: 1}.
C1_Witness ==
  /\ pc = "agg_b"
  /\ df1 = <<Row("1", "T>C"), Row("X", "T>C"), Row("1", "indel")>>
  /\ ~indels
  /\ a = << <<"T>C", 1>> >>

\* C2: when the bars are drawn the two fraction vectors have the same length
\* and position n of both belongs to the n-th category label in str order,
\* which is also the n-th tick label, on every build.  Stated for two
\* non-empty filtered sets, whose retained categories may differ (a zero
\* total is the case of C3).
C2_BarsAligned ==
  NRetained(df1, indels) > 0 /\ NRetained(df2, indels) > 0 =>
    /\ pc = "draw" =>
         /\ Len(a_frac) = Len(b_frac)
         /\ Keys(a) = UnionLabels
         /\ Keys(b) = UnionLabels
    /\ pc = "done" => chart.ticks = UnionLabels

\* C3: a call whose filtered set A or B has total count zero never reaches
\* the bar-drawing step (it has ended in an error by then).
C3_ZeroTotalFails ==
  pc \in {"draw", "done"} => NRetained(df1, indels) > 0 /\ NRetained(df2, indels) > 0

\* C4 as claimed: when the test loop ends there is exactly one (category,
\* p-value) entry per key of A, in the order of first occurrence among A's
\* retained rows, on every build; a category retained only in B has no entry
\* and makes no chi-square error.
C4_TestedCategories ==
  /\ LoopDone =>
       /\ {unadj_p_vals[n][1] : n \in DOMAIN unadj_p_vals} = RetainedCats(df1, indels)
       /\ Len(unadj_p_vals) = Cardinality(RetainedCats(df1, indels))
       /\ \A x, y \in DOMAIN unadj_p_vals :
            x < y => FirstRow(df1, indels, unadj_p_vals[x][1])
                       < FirstRow(df1, indels, unadj_p_vals[y][1])
  /\ RetainedCats(df2, indels) \ RetainedCats(df1, indels) # {} => ~ChiSquareFailed

\* C4 as amended: when the test loop ends there is exactly one (category,
\* p-value) entry per key of A, in the order A's mapping enumerates its keys
\* when the loop ends, which is the order of first occurrence among A's
\* retained rows where dicts keep insertion order; a category retained only
\* in B has no entry and makes no chi-square error.
C4_TestedCategoriesInDictOrder ==
  /\ LoopDone =>
       /\ {unadj_p_vals[n][1] : n \in DOMAIN unadj_p_vals} = RetainedCats(df1, indels)
       /\ Len(unadj_p_vals) = Cardinality(RetainedCats(df1, indels))
       /\ build.dict = "insertion" =>
            \A x, y \in DOMAIN unadj_p_vals :
              x < y => FirstRow(df1, indels, unadj_p_vals[x][1])
                         < FirstRow(df1, indels, unadj_p_vals[y][1])
  /\ pc \in {"report", "sort"} => [n \in DOMAIN unadj_p_vals |-> unadj_p_vals[n][1]] = Keys(a)
  /\ RetainedCats(df2, indels) \ RetainedCats(df1, indels) # {} => ~ChiSquareFailed

\* C4 witness: on a build whose dicts enumerate by hash the loop has ended for
\* a set A whose first retained row is T>C and a later one C>T, with a
\* category retained only in B; the entry of C>T comes first.
C4_Witness ==
  /\ pc = "report"
  /\ build.dict = "hash"
  /\ Len(unadj_p_vals) = 2
  /\ unadj_p_vals[1][1] = "C>T" /\ unadj_p_vals[2][1] = "T>C"
  /\ FirstRow(df1, indels, "T>C") < FirstRow(df1, indels, "C>T")
  /\ "indel" \in RetainedCats(df2, indels)

\* C5 as claimed: with two identical input sets, whatever the number of
\* retained categories, every tested category gets a p-value of 1.0 from a
\* table without a zero margin, and no category is flagged.
C5_IdenticalSets ==
  df1 = df2 =>
    /\ ~ChiSquareFailed
    /\ TablePassed => ZeroExpected(tbl) = {}
    /\ \A n \in DOMAIN unadj_p_vals : IsOne(unadj_p_vals[n][2])
    /\ \A n \in DOMAIN report : ~report[n].star

\* C5 as amended: with two identical input sets of at least two retained
\* categories every category is tested, on a table with equal rows and no
\* zero margin, with p-value 1.0, and none is flagged; with exactly one
\* retained category the 'other' column of its table is zero in both rows
\* and the call ends in the chi-square error before any p-value.
C5_IdenticalSetsTwoCategories ==
  df1 = df2 =>
    /\ Cardinality(RetainedCats(df1, indels)) >= 2 =>
         /\ ~ChiSquareFailed
         /\ TablePassed => ZeroExpected(tbl) = {} /\ tbl[1] = tbl[2]
         /\ LoopDone => Len(unadj_p_vals) = Cardinality(RetainedCats(df1, indels))
         /\ \A n \in DOMAIN unadj_p_vals : IsOne(unadj_p_vals[n][2])
         /\ LoopDone => \A n \in DOMAIN unadj_p_vals : ~signif[n]
         /\ \A n \in DOMAIN report : ~report[n].star
    /\ Cardinality(RetainedCats(df1, indels)) = 1 =>
         /\ ~LoopDone
         /\ unadj_p_vals = <<>>
         /\ TablePassed => ChiSquareFailed /\ ColSum(tbl, 1) = 0

\* C5 witness: identical sets of three categories and unequal counts have
\* been tested and reported, every p-value 1.0 and no line marked.
C5_Witness ==
  /\ df1 = df2
  /\ pc = "sort"
  /\ Len(report) = 3
  /\ \E n \in DOMAIN a : a[n][2] >= 2
  /\ \A n \in DOMAIN report : IsOne(report[n].u_p) /\ ~report[n].star

\* C6: a table with a zero row or column margin ends in an error that names
\* the category (the code has no skip-and-report), and no undefined p-value
\* reaches the Benjamini-Hochberg step.
C6_ZeroMarginExplicit ==
  /\ ChiSquareFailed => \E k \in DOMAIN err.args : err.args[k] = LastCategory
  /\ \A n \in DOMAIN unadj_p_vals : ~IsNaN(unadj_p_vals[n][2])

\* What a call has computed so far, by its own arguments alone.
C7_OwnArguments ==
  /\ defaults = DefaultArgs
  /\ pc = "agg_a" => a = <<>> /\ b = <<>>
  /\ pc \in {"agg_b", "totals", "test", "report", "sort", "normalize", "draw", "done"}
       => ExactCounts(a, df1, indels)
  /\ pc \in {"totals", "test", "report", "sort", "normalize", "draw", "done"} =>
       /\ RetainedCats(df2, indels) \subseteq KeySet(b)
       /\ KeySet(b) \subseteq RetainedCats(df2, indels) \cup RetainedCats(df1, indels)
       /\ \A n \in DOMAIN b : b[n][2] = CountOf(df2, indels, b[n][1])
  /\ pc \in {"report", "sort", "normalize", "draw", "done"} =>
       /\ {unadj_p_vals[n][1] : n \in DOMAIN unadj_p_vals} = RetainedCats(df1, indels)
       /\ \A n \in DOMAIN unadj_p_vals :
            /\ SamePValue(unadj_p_vals[n][2], Chi2Statistic(OwnTable(unadj_p_vals[n][1])))
            /\ signif[n] = BHFlag(n)
  /\ pc \in {"draw", "done"} =>
       /\ \A n \in DOMAIN a_frac :
            a_frac[n] = [num |-> CountOf(df1, indels, a[n][1]), den |-> NRetained(df1, indels)]
       /\ \A n \in DOMAIN b_frac :
            b_frac[n] = [num |-> CountOf(df2, indels, b[n][1]), den |-> NRetained(df2, indels)]

\* Inside a call neither the input sets nor the default lists change.
C7_Frame ==
  pc' # "enter" =>
    /\ df1' = df1 /\ df2' = df2 /\ indels' = indels
    /\ labels' = labels /\ colors' = colors
    /\ defaults' = defaults

\* C7: after any sequence of calls, what a call computes depends only on its
\* own arguments: both mappings start empty, nothing of an earlier call (the
\* zero-count keys added to B included) is in them, the default labels/colors
\* lists are never modified and the input sets are left unchanged.
C7_CallsIndependent == [](C7_OwnArguments) /\ [][C7_Frame]_vars

\* C7 witness: the second call of a session, made with the default labels,
\* has tested its categories, added a zero-count key to B and normalized.
C7_Witness ==
  /\ execution_count = 2
  /\ pc = "draw"
  /\ labels = DefaultArgs.labels
  /\ Len(unadj_p_vals) = 2
  /\ \E n \in DOMAIN b : b[n][2] = 0

\* C8: the table passed for category c has the A row sum(A) - A[c], A[c] and
\* the B row sum(B) - B[c], B[c] in the same column order, B[c] being 0 when
\* c has no retained row in B; the sums are the totals reported earlier, and
\* each row sums to its set's total also after the key was added to B.
C8_ContingencyTable ==
  TablePassed =>
    /\ totals[1].n_dnms = NRetained(df1, indels)
    /\ totals[2].n_dnms = NRetained(df2, indels)
    /\ tbl = OwnTable(LastCategory)
    /\ RowSum(tbl, 1) = totals[1].n_dnms /\ RowSum(tbl, 1) = SumValues(a)
    /\ RowSum(tbl, 2) = totals[2].n_dnms /\ RowSum(tbl, 2) = SumValues(b)

\* C8 witness: a table was passed and tested for a category with no retained
\* row in B, whose key the lookup added to B, B not being empty.
C8_Witness ==
  /\ pc = "test" /\ i > 1
  /\ LastCategory \notin RetainedCats(df2, indels)
  /\ HasKey(b, LastCategory)
  /\ SumValues(b) > 0
  /\ tbl[2][2] = 0 /\ tbl[2][1] > 0

\* C9: the report has one line per tested category, in the order the
\* p-values were computed; line n shows category n with its own p-value and
\* the '*' marker iff the n-th Benjamini-Hochberg flag is true.
C9_ReportLines ==
  LoopDone /\ pc # "report" =>
    /\ Len(report) = Len(unadj_p_vals)
    /\ \A n \in DOMAIN report :
         /\ report[n].change = unadj_p_vals[n][1]
         /\ report[n].u_p = unadj_p_vals[n][2]
         /\ SamePValue(report[n].u_p, Chi2Statistic(OwnTable(report[n].change)))
         /\ report[n].star = BHFlag(n)

\* C9 witness: a report of two lines with different p-values, the first
\* marked and the second not.
C9_Witness ==
  /\ pc = "sort"
  /\ Len(report) = 2
  /\ report[1].star /\ ~report[2].star
  /\ ~SamePValue(report[1].u_p, report[2].u_p)

\* C10: the test loop changes the mappings only by adding to B, with count 0,
\* the categories of A it has looked up that B lacks; A, the existing counts
\* and both totals stay.  So at normalization keys(A) is a subset of keys(B),
\* and the fraction vectors have equal length iff every category retained in
\* B is retained in A.
C10_LoopOnlyAddsZeroKeys ==
  /\ pc \in {"test", "report", "sort"} \/ ChiSquareFailed =>
       /\ ExactCounts(a, df1, indels)
       /\ Len(b) = Cardinality(KeySet(b))
       /\ \A n \in DOMAIN b : b[n][2] = CountOf(df2, indels, b[n][1])
       /\ KeySet(b) = RetainedCats(df2, indels) \cup
            {Keys(a)[n] : n \in 1..(IF pc = "test" THEN i - 1
                                     ELSE IF pc = "error" THEN i ELSE Len(a))}
       /\ SumValues(a) = totals[1].n_dnms
       /\ SumValues(b) = totals[2].n_dnms
  /\ pc \in {"normalize", "draw"} => KeySet(a) \subseteq KeySet(b)
  /\ pc = "draw" =>
       (Len(a_frac) = Len(b_frac)
          <=> RetainedCats(df2, indels) \subseteq RetainedCats(df1, indels))

\* C10 witness: normalization done with a zero-count key in B and fraction
\* vectors of equal length.
C10_Witness ==
  /\ pc = "draw"
  /\ \E n \in DOMAIN b : b[n][2] = 0
  /\ Len(a_frac) = Len(b_frac)
  /\ Len(a_frac) = 2

====
